---- MODULE Spec2Model ----
(***************************************************************************)
(* Model of search::attribute::diversity::DiversityFilterT<Fetcher>, the   *)
(* diversity-bounded admission filter of                                   *)
(* searchlib/src/vespa/searchlib/attribute/diversity.hpp.                  *)
(*                                                                         *)
(* The filter object is the record of its fields; accepted(docId) is the   *)
(* single mutating operation.  The counters are uint32_t in the source;    *)
(* _total_count is only incremented below _max_total and a group count     *)
(* only below _max_per_group, so no counter can wrap and plain naturals    *)
(* model them exactly.                                                     *)
(***************************************************************************)
EXTENDS Naturals, Sequences, FiniteSets, TLC

\* ------------------------------------------------------------- bounds
\* Number of document ids the driver may present.
NumDocs == 6
\* Number of accepted() calls in one traversal.
MaxCalls == 5
\* Largest configured values drawn for the three caps.
MaxTotalBound == 3
MaxPerGroupBound == 2
MaxGroupsBound == 2

DocIds == 0 .. (NumDocs - 1)

\* ------------------------------------------------------------- state
VARIABLES
    total_count,        \* _total_count
    seen,               \* _seen : group -> accepted count of that group
    max_total,          \* _max_total         (immutable configuration)
    max_per_group,      \* _max_per_group     (immutable configuration)
    cutoff_max_groups,  \* _cutoff_max_groups (immutable configuration)
    cutoff_strict,      \* _cutoff_strict     (immutable configuration)
    trace,              \* history: one entry per completed accepted() call
    pending,            \* per thread: the increments its call has yet to make
    serialized          \* whether the callers serialize their calls

config == <<max_total, max_per_group, cutoff_max_groups, cutoff_strict>>
vars == <<total_count, seen, max_total, max_per_group, cutoff_max_groups,
          cutoff_strict, trace, pending, serialized>>

\* The filter object the member functions run on.
This ==
    [total_count |-> total_count, seen |-> seen, max_total |-> max_total,
     max_per_group |-> max_per_group, cutoff_max_groups |-> cutoff_max_groups,
     cutoff_strict |-> cutoff_strict]

\* The threads that may call into one filter, and a thread outside a call.
Threads == {1, 2}
Idle == [kind |-> "idle"]
NoCalls == [t \in Threads |-> Idle]

\* The empty hash map.
EmptyMap == [g \in {} |-> 0]

\* ------------------------------------------------------------ fetcher
\* _diversity.get(docId): the attribute value of a document.  The fetcher is
\* a deterministic lookup; here documents 2k and 2k+1 carry value k.
Get(docId) == docId \div 2

Groups == {Get(d) : d \in DocIds}

\* ---------------------------------------------------- member functions
\* What a call hands back: the return value, the filter afterwards, whether
\* the fetcher was invoked and whether the call went through the bare add().
Outcome(ret, self, fetched, uncapped) ==
    [ret |-> ret, self |-> self, fetched |-> fetched, uncapped |-> uncapped]

\* add(): count the document against the global total and accept it.
add(f, fetched) ==
    Outcome(TRUE, [f EXCEPT !.total_count = @ + 1], fetched, TRUE)

\* conditional_add(count): accept only while the group is below its cap.
conditional_add(f, group) ==
    IF f.seen[group] < f.max_per_group
    THEN Outcome(TRUE,
                 [f EXCEPT !.seen[group] = @ + 1, !.total_count = @ + 1],
                 TRUE, FALSE)
    ELSE Outcome(FALSE, f, TRUE, FALSE)

\* Mutation of seen_index: a new key starts at count 1 instead of 0.
seen_index_from_one(f, group) ==
    IF group \in DOMAIN f.seen
    THEN f
    ELSE [f EXCEPT !.seen = (group :> 1) @@ f.seen]

\* _seen[group]: the hash map's operator[] inserts a zero count for a new key.
seen_index(f, group) ==
    IF group \in DOMAIN f.seen
    THEN f
    ELSE [f EXCEPT !.seen = (group :> 0) @@ f.seen]

\* Mutation of under_max_total: off-by-one comparison (<= for <).
under_max_total_leq(f) == f.total_count <= f.max_total

\* _total_count < _max_total
under_max_total(f) == f.total_count < f.max_total

\* Mutation of has_room: off-by-one comparison (<= for <).
has_room_leq(f) == Cardinality(DOMAIN f.seen) <= f.cutoff_max_groups

\* Mutation of has_room: the capacity is never checked.
has_room_always(f) == TRUE

\* _seen.size() < _cutoff_max_groups
has_room(f) == Cardinality(DOMAIN f.seen) < f.cutoff_max_groups

\* Mutation of use_groups: the overflow policy flag is ignored and every
\* call goes through the per-group accounting.
use_groups_always(f) == TRUE

\* Mutation of use_groups: the policy flag is read inverted.
use_groups_flag_inverted(f) == has_room(f) \/ ~f.cutoff_strict

\* Mutation of use_groups: the capacity test is dropped from the gate.
use_groups_strict_only(f) == f.cutoff_strict

\* (_seen.size() < _cutoff_max_groups) || _cutoff_strict
use_groups(f) == has_room(f) \/ f.cutoff_strict

\* Mutation of admit_with_room: the document is counted against the total
\* before the per-group check, so a rejected one is counted too.
admit_with_room_counts_rejected(f, group) ==
    LET r == conditional_add(seen_index(f, group), group)
    IN  IF r.ret THEN r ELSE [r EXCEPT !.self.total_count = @ + 1]

\* Mutation of admit_with_room: the group is looked up first and a new key is
\* inserted only when its document is accepted.
admit_with_room_insert_on_accept(f, group) ==
    IF group \in DOMAIN f.seen \/ 0 < f.max_per_group
    THEN conditional_add(seen_index(f, group), group)
    ELSE Outcome(FALSE, f, TRUE, FALSE)

\* return conditional_add(_seen[group]);
admit_with_room(f, group) == conditional_add(seen_index(f, group), group)

\* Mutation of admit_without_room: the lookup is dropped, every document is
\* accepted through add().
admit_without_room_always_add(f, group) == add(f, TRUE)

\* Mutation of admit_without_room: an untracked group is rejected instead
\* of accepted.
admit_without_room_rejects_new(f, group) ==
    IF group \notin DOMAIN f.seen
    THEN Outcome(FALSE, f, TRUE, FALSE)
    ELSE conditional_add(f, group)

\* Mutation of admit_without_room: the arms of the conditional are swapped
\* (found != end for found == end); an untracked group starts from count 0.
admit_without_room_swapped(f, group) ==
    IF group \in DOMAIN f.seen
    THEN add(f, TRUE)
    ELSE conditional_add(seen_index(f, group), group)

\* auto found = _seen.find(group);
\* return (found == _seen.end()) ? add() : conditional_add(found->second);
admit_without_room(f, group) ==
    IF group \notin DOMAIN f.seen
    THEN add(f, TRUE)
    ELSE conditional_add(f, group)

\* Mutation of accepted: the fetch and the _seen[group] lookup are hoisted
\* above the global cap check.
accepted_fetch_first(f, docId) ==
    IF use_groups(f)
    THEN LET group == Get(docId)
         IN  IF has_room(f)
             THEN IF under_max_total(f)
                  THEN admit_with_room(f, group)
                  ELSE Outcome(FALSE, seen_index(f, group), TRUE, FALSE)
             ELSE IF under_max_total(f)
                  THEN admit_without_room(f, group)
                  ELSE Outcome(FALSE, f, TRUE, FALSE)
    ELSE IF under_max_total(f) /\ ~f.cutoff_strict
         THEN add(f, FALSE)
         ELSE Outcome(FALSE, f, FALSE, FALSE)

\* bool DiversityFilterT<Fetcher>::accepted(uint32_t docId)
accepted(f, docId) ==
    IF under_max_total(f)
    THEN IF use_groups(f)
         THEN LET group == Get(docId)
              IN  IF has_room(f)
                  THEN admit_with_room(f, group)
                  ELSE admit_without_room(f, group)
         ELSE IF ~f.cutoff_strict
              THEN add(f, FALSE)
              ELSE Outcome(FALSE, f, FALSE, FALSE)
    ELSE Outcome(FALSE, f, FALSE, FALSE)

\* ------------------------------------------------------------ actions
\* One history entry: the document's group, the filter's counters at call
\* entry, what the call returned, and how.
Entry(f, docId, r) ==
    [group |-> Get(docId), total_before |-> f.total_count,
     seen_before |-> f.seen, ret |-> r.ret, fetched |-> r.fetched,
     uncapped |-> r.uncapped]

\* The driver calls accepted(docId) on the filter.
Accepted(docId) ==
    LET r == accepted(This, docId)
    IN  /\ total_count' = r.self.total_count
        /\ seen' = r.self.seen
        /\ trace' = Append(trace, Entry(This, docId, r))
        /\ UNCHANGED <<config, pending, serialized>>

\* A freshly constructed filter, for every configuration within the bounds.
Init ==
    /\ total_count = 0
    /\ seen = EmptyMap
    /\ max_total \in 0 .. MaxTotalBound
    /\ max_per_group \in 0 .. MaxPerGroupBound
    /\ cutoff_max_groups \in 0 .. MaxGroupsBound
    /\ cutoff_strict \in BOOLEAN
    /\ trace = <<>>
    /\ pending = NoCalls
    /\ serialized = TRUE

Next == \E docId \in DocIds : Len(trace) < MaxCalls /\ Accepted(docId)

Spec == Init /\ [][Next]_vars

\* The worked example's stream [A,A,A,B,B,C,C] (A = 0, B = 1, C = 2) and the
\* accept/reject trace claimed for it.
ScenarioGroups == <<0, 0, 0, 1, 1, 2, 2>>
ScenarioResults == <<TRUE, TRUE, FALSE, TRUE, TRUE, TRUE, FALSE>>

\* The filter of the worked example: max_total 5, max_per_group 2,
\* max_tracked_groups 2, strict overflow policy; as many calls as the example
\* has, on any documents.
InitScenario ==
    /\ total_count = 0
    /\ seen = EmptyMap
    /\ max_total = 5
    /\ max_per_group = 2
    /\ cutoff_max_groups = 2
    /\ cutoff_strict = TRUE
    /\ trace = <<>>
    /\ pending = NoCalls
    /\ serialized = TRUE

NextScenario == \E docId \in DocIds : Len(trace) < Len(ScenarioGroups) /\ Accepted(docId)

SpecScenario == InitScenario /\ [][NextScenario]_vars

\* ------------------------------------------- accepted() in two steps
\* accepted() as two threads may interleave it: the first step runs the code
\* up to the comparisons (with the _seen[group] insertion of the room
\* branch), the second makes the increments decided by the first.

\* conditional_add's comparison: the increments it leaves to be made.
check_group(f, group) ==
    IF f.seen[group] < f.max_per_group
    THEN [self |-> f, pending |-> [kind |-> "conditional_add", group |-> group]]
    ELSE [self |-> f, pending |-> Idle]

\* accepted() up to the increments.
accepted_check(f, docId) ==
    IF under_max_total(f)
    THEN IF use_groups(f)
         THEN LET group == Get(docId)
              IN  IF has_room(f)
                  THEN check_group(seen_index(f, group), group)
                  ELSE IF group \notin DOMAIN f.seen
                       THEN [self |-> f, pending |-> [kind |-> "add"]]
                       ELSE check_group(f, group)
         ELSE IF ~f.cutoff_strict
              THEN [self |-> f, pending |-> [kind |-> "add"]]
              ELSE [self |-> f, pending |-> Idle]
    ELSE [self |-> f, pending |-> Idle]

\* Thread t enters accepted(docId) and runs it up to the increments.  Callers
\* that serialize their calls enter only while no other call is in progress.
Check(t, docId) ==
    LET r == accepted_check(This, docId)
    IN  /\ pending[t] = Idle
        /\ serialized => pending = NoCalls
        /\ seen' = r.self.seen
        /\ pending' = [pending EXCEPT ![t] = r.pending]
        /\ UNCHANGED <<total_count, config, trace, serialized>>

\* Thread t makes the increments of its call: ++count (conditional_add only)
\* and ++_total_count, and returns true.
Commit(t) ==
    /\ pending[t] # Idle
    /\ seen' = IF pending[t].kind = "conditional_add"
               THEN [seen EXCEPT ![pending[t].group] = @ + 1]
               ELSE seen
    /\ total_count' = total_count + 1
    /\ pending' = [pending EXCEPT ![t] = Idle]
    /\ UNCHANGED <<config, trace, serialized>>

\* A fresh filter shared by the threads, with or without serialized callers.
InitConcurrent ==
    /\ total_count = 0
    /\ seen = EmptyMap
    /\ max_total \in 0 .. MaxTotalBound
    /\ max_per_group \in 0 .. MaxPerGroupBound
    /\ cutoff_max_groups \in 0 .. MaxGroupsBound
    /\ cutoff_strict \in BOOLEAN
    /\ trace = <<>>
    /\ pending = NoCalls
    /\ serialized \in BOOLEAN

NextConcurrent ==
    \E t \in Threads :
       \/ \E docId \in DocIds : Check(t, docId)
       \/ Commit(t)

SpecConcurrent == InitConcurrent /\ [][NextConcurrent]_vars

\* ------------------------------------------------ unbounded traversal
\* The driver calls accepted(docId) for as long as it likes.  The history is
\* restarted whenever it holds two calls, so it stays bounded while every
\* call remains a visible step.
AcceptedLive(docId) ==
    LET r == accepted(This, docId)
    IN  /\ total_count' = r.self.total_count
        /\ seen' = r.self.seen
        /\ trace' = IF Len(trace) < 2
                    THEN Append(trace, Entry(This, docId, r))
                    ELSE <<Entry(This, docId, r)>>
        /\ UNCHANGED <<config, pending, serialized>>

NextLive == \E docId \in DocIds : AcceptedLive(docId)

SpecLive == Init /\ [][NextLive]_vars

\* ------------------------------------------------- history observations
Calls == DOMAIN trace

\* The filter's counters when call i returned: the entry state of the next
\* call, or the current state for the latest call.
TotalAfter(i) == IF i < Len(trace) THEN trace[i + 1].total_before ELSE total_count
SeenAfter(i) == IF i < Len(trace) THEN trace[i + 1].seen_before ELSE seen

\* size(tracked) at the entry of call i.
SizeBefore(i) == Cardinality(DOMAIN trace[i].seen_before)

\* The distinct group keys presented by the calls before call i, and by all
\* calls so far.
PresentedBefore(i) == {trace[j].group : j \in 1 .. (i - 1)}
Presented == {trace[j].group : j \in Calls}

\* Number of calls that returned true for a document of group g.
AcceptedOf(g) == Cardinality({i \in Calls : trace[i].group = g /\ trace[i].ret})

\* --------------------------------------------------------------- claims

\* C1 (global cap): in every reachable state total_count <= max_total, and
\* every call entered with total_count = max_total returned false and left
\* the total at max_total, so the capped state is absorbing.
C1_GlobalCap ==
    /\ total_count <= max_total
    /\ \A i \in Calls :
          /\ trace[i].total_before <= max_total
          /\ trace[i].total_before = max_total =>
                ~trace[i].ret /\ TotalAfter(i) = max_total

\* C1 witness: a filter that filled up to a positive max_total by accepting
\* documents and then refused two further calls.
C1_Witness ==
    /\ max_total >= 2
    /\ total_count = max_total
    /\ Len(trace) >= max_total + 2
    /\ trace[Len(trace)].total_before = max_total
    /\ ~trace[Len(trace)].ret
    /\ \E i \in Calls : trace[i].ret /\ TotalAfter(i) = max_total

\* C2 (per-group cap, strict mode within capacity): with cutoff_strict and
\* at most cutoff_max_groups distinct group keys presented so far, no group
\* has more than max_per_group accepted documents.
C2_PerGroupCapStrict ==
    (cutoff_strict /\ Cardinality(Presented) <= cutoff_max_groups) =>
        \A g \in Groups : AcceptedOf(g) <= max_per_group

\* C2 witness: strict mode, the table exactly filled by the presented groups,
\* and a document of a tracked group at its cap refused by the full-table
\* lookup while the global cap still had room.
C2_Witness ==
    /\ cutoff_strict
    /\ max_per_group >= 1
    /\ Cardinality(Presented) = cutoff_max_groups
    /\ \E i \in Calls :
          /\ SizeBefore(i) = cutoff_max_groups
          /\ trace[i].total_before < max_total
          /\ AcceptedOf(trace[i].group) = max_per_group
          /\ ~trace[i].ret

\* C3 (tracking-memory bound): seen never holds more than cutoff_max_groups
\* keys, and every tracked count lies in 0 .. max_per_group.
C3_TrackingBound ==
    /\ Cardinality(DOMAIN seen) <= cutoff_max_groups
    /\ \A g \in DOMAIN seen : seen[g] \in 0 .. max_per_group

\* C3 witness: more distinct groups were fetched than the table can hold, the
\* table is full, and a tracked group sits at a positive cap.
C3_Witness ==
    /\ cutoff_max_groups >= 1
    /\ Cardinality(DOMAIN seen) = cutoff_max_groups
    /\ Cardinality({trace[i].group : i \in {j \in Calls : trace[j].fetched}})
          > cutoff_max_groups
    /\ \E g \in DOMAIN seen : seen[g] = max_per_group /\ max_per_group >= 1

\* C4 (monotonicity and reject frame): no call lowers total_count; a call
\* that returned false left total_count and the count of every group tracked
\* at its entry unchanged; a call that returned true raised total_count by
\* exactly 1.
C4_MonotoneFrame ==
    \A i \in Calls :
       /\ TotalAfter(i) >= trace[i].total_before
       /\ ~trace[i].ret =>
             /\ TotalAfter(i) = trace[i].total_before
             /\ \A g \in DOMAIN trace[i].seen_before :
                   /\ g \in DOMAIN SeenAfter(i)
                   /\ SeenAfter(i)[g] = trace[i].seen_before[g]
       /\ trace[i].ret => TotalAfter(i) = trace[i].total_before + 1

\* C4 witness: a call refused for its group's cap (below the global cap, with
\* a tracked group in the table) and an accepting call after it.
C4_Witness ==
    \E i, j \in Calls :
       /\ i < j
       /\ ~trace[i].ret
       /\ trace[i].total_before < max_total
       /\ trace[i].group \in DOMAIN trace[i].seen_before
       /\ trace[i].seen_before[trace[i].group] >= 1
       /\ trace[j].ret

\* C5 (non-strict degradation): without cutoff_strict, every call entered
\* after cutoff_max_groups distinct groups were seen (the table is full) and
\* with total_count < max_total returned true.
C5_NonStrictDegradation ==
    ~cutoff_strict =>
        \A i \in Calls :
           (/\ trace[i].total_before < max_total
            /\ \/ Cardinality(PresentedBefore(i)) >= cutoff_max_groups
               \/ SizeBefore(i) = cutoff_max_groups)
           => trace[i].ret

\* C5 witness: non-strict mode, a full table, and an accepted document of a
\* tracked group whose count already equalled max_per_group.
C5_Witness ==
    /\ ~cutoff_strict
    /\ cutoff_max_groups >= 1
    /\ max_per_group >= 1
    /\ \E i \in Calls :
          /\ SizeBefore(i) = cutoff_max_groups
          /\ trace[i].group \in DOMAIN trace[i].seen_before
          /\ trace[i].seen_before[trace[i].group] = max_per_group
          /\ trace[i].ret

\* C6 as stated (non-strict trigger point): uncapped admission starts only at
\* a call whose group is new while the table is full; until such a call, a
\* document of a tracked group that is at max_per_group is rejected.
C6_OriginalTriggerPoint ==
    ~cutoff_strict =>
        \A i \in Calls :
           /\ trace[i].uncapped =>
                 \E j \in 1 .. i :
                    /\ trace[j].group \notin DOMAIN trace[j].seen_before
                    /\ SizeBefore(j) = cutoff_max_groups
           /\ (/\ trace[i].total_before < max_total
               /\ PresentedBefore(i) \subseteq DOMAIN trace[i].seen_before
               /\ trace[i].group \in DOMAIN trace[i].seen_before
               /\ trace[i].seen_before[trace[i].group] >= max_per_group)
              => ~trace[i].ret

\* C6 amended (non-strict trigger point): without cutoff_strict a call is
\* admitted through the uncapped branch exactly when, at its entry,
\* total_count < max_total and seen already holds cutoff_max_groups keys,
\* whatever the call's group; while seen holds fewer keys a document of a
\* tracked group that is at max_per_group is rejected.
C6_TriggerPoint ==
    ~cutoff_strict =>
        \A i \in Calls :
           /\ trace[i].uncapped <=>
                 (/\ trace[i].total_before < max_total
                  /\ SizeBefore(i) = cutoff_max_groups)
           /\ (/\ trace[i].total_before < max_total
               /\ SizeBefore(i) < cutoff_max_groups
               /\ trace[i].group \in DOMAIN trace[i].seen_before
               /\ trace[i].seen_before[trace[i].group] >= max_per_group)
              => ~trace[i].ret

\* C6 witness: non-strict mode; a document of a tracked group at its cap was
\* rejected while the table had room, and later, with the table full and no
\* group outside the table ever presented, a document of a tracked group at
\* its cap was accepted through the uncapped branch.
C6_Witness ==
    /\ ~cutoff_strict
    /\ max_per_group >= 1
    /\ \E i, j \in Calls :
          /\ i < j
          /\ SizeBefore(i) < cutoff_max_groups
          /\ trace[i].group \in DOMAIN trace[i].seen_before
          /\ trace[i].seen_before[trace[i].group] = max_per_group
          /\ ~trace[i].ret
          /\ SizeBefore(j) = cutoff_max_groups
          /\ PresentedBefore(j) \subseteq DOMAIN trace[j].seen_before
          /\ trace[j].group \in DOMAIN trace[j].seen_before
          /\ trace[j].seen_before[trace[j].group] = max_per_group
          /\ trace[j].ret
          /\ trace[j].uncapped

OnScenario ==
    /\ Len(trace) <= Len(ScenarioGroups)
    /\ \A i \in Calls : trace[i].group = ScenarioGroups[i]

\* C7 (concrete strict scenario): with max_total 5, max_per_group 2,
\* max_tracked_groups 2 and the strict policy, the stream [A,A,A,B,B,C,C] is
\* answered [true,true,false,true,true,true,false]; total_count reaches 5 at
\* the first C and C is never inserted into seen.
C7_StrictScenario ==
    OnScenario =>
        /\ \A i \in Calls : trace[i].ret = ScenarioResults[i]
        /\ 2 \notin DOMAIN seen
        /\ total_count = 5 <=> Len(trace) >= 6

\* C7 witness: the whole stream of the example has been consumed.
C7_Witness == OnScenario /\ Len(trace) = Len(ScenarioGroups)

\* C8 (strict-mode overflow admission): with cutoff_strict, a call entered
\* with a full table, total_count < max_total and a group that is not tracked
\* returned true, raised total_count by 1, left seen unchanged, and its group
\* is not tracked in any later state.
C8_StrictOverflowAdmission ==
    cutoff_strict =>
        \A i \in Calls :
           (/\ SizeBefore(i) = cutoff_max_groups
            /\ trace[i].total_before < max_total
            /\ trace[i].group \notin DOMAIN trace[i].seen_before)
           => /\ trace[i].ret
              /\ trace[i].uncapped
              /\ TotalAfter(i) = trace[i].total_before + 1
              /\ SeenAfter(i) = trace[i].seen_before
              /\ trace[i].group \notin DOMAIN seen

\* C8 witness: strict mode with a non-empty full table, and an untracked
\* group with more than max_per_group (>= 1) accepted documents.
C8_Witness ==
    /\ cutoff_strict
    /\ cutoff_max_groups >= 1
    /\ max_per_group >= 1
    /\ \E g \in Groups \ DOMAIN seen : AcceptedOf(g) > max_per_group

\* C9 (strict mode keeps caps of tracked groups): with cutoff_strict, for
\* every tracked group the number of its accepted documents equals its
\* tracked count, which is at most max_per_group.
C9_StrictTrackedCaps ==
    cutoff_strict =>
        \A g \in DOMAIN seen :
           AcceptedOf(g) = seen[g] /\ seen[g] <= max_per_group

\* C9 witness: strict mode, an untracked group was admitted through the
\* overflow branch, and afterwards a document of a tracked group at its cap
\* was refused by the full-table lookup.
C9_Witness ==
    /\ cutoff_strict
    /\ max_per_group >= 1
    /\ \E i, j \in Calls :
          /\ i < j
          /\ trace[i].uncapped
          /\ trace[i].group \notin DOMAIN seen
          /\ SizeBefore(j) = cutoff_max_groups
          /\ trace[j].total_before < max_total
          /\ trace[j].group \in DOMAIN seen
          /\ seen[trace[j].group] = max_per_group
          /\ AcceptedOf(trace[j].group) = max_per_group
          /\ ~trace[j].ret

\* C12 (one-way transitions): no call removes a key from seen or lowers a
\* tracked count, a table that is full at a call's entry is full afterwards,
\* and without cutoff_strict a call made after an uncapped admission returned
\* false only when it was entered with total_count >= max_total.
C12_OneWay ==
    /\ \A i \in Calls :
          /\ \A g \in DOMAIN trace[i].seen_before :
                /\ g \in DOMAIN SeenAfter(i)
                /\ SeenAfter(i)[g] >= trace[i].seen_before[g]
          /\ SizeBefore(i) = cutoff_max_groups =>
                Cardinality(DOMAIN SeenAfter(i)) = cutoff_max_groups
    /\ ~cutoff_strict =>
          \A i, j \in Calls :
             (i < j /\ trace[i].uncapped /\ ~trace[j].ret)
             => trace[j].total_before >= max_total

\* C12 witness: non-strict mode with a non-empty table holding a positive
\* count; a document was admitted through the uncapped branch, a later
\* document of a tracked group at its cap was accepted, and a still later
\* call was refused at the global cap.
C12_Witness ==
    /\ ~cutoff_strict
    /\ cutoff_max_groups >= 1
    /\ max_per_group >= 1
    /\ \E i, j, k \in Calls :
          /\ i < j /\ j < k
          /\ trace[i].uncapped
          /\ trace[j].group \in DOMAIN trace[j].seen_before
          /\ trace[j].seen_before[trace[j].group] = max_per_group
          /\ trace[j].ret
          /\ ~trace[k].ret
          /\ trace[k].total_before = max_total

\* C13 (global cap check first, no effect): a call entered with
\* total_count >= max_total returned false, did not invoke the fetcher and
\* left total_count and seen (keys and counts) unchanged.
C13_CapCheckFirst ==
    \A i \in Calls :
       trace[i].total_before >= max_total =>
          /\ ~trace[i].ret
          /\ ~trace[i].fetched
          /\ TotalAfter(i) = trace[i].total_before
          /\ SeenAfter(i) = trace[i].seen_before

\* C13 witness: a call at the global cap whose group was new while the table
\* still had room.
C13_Witness ==
    \E i \in Calls :
       /\ max_total >= 1
       /\ trace[i].total_before >= max_total
       /\ trace[i].group \notin DOMAIN trace[i].seen_before
       /\ SizeBefore(i) < cutoff_max_groups
       /\ SizeBefore(i) >= 1

\* C14 (fetcher invocation condition): a call invoked the fetcher exactly
\* when, at its entry, total_count < max_total and (seen had room or
\* cutoff_strict); without cutoff_strict a call entered with a full table
\* below the global cap was accepted without a fetch.
C14_FetchCondition ==
    \A i \in Calls :
       /\ trace[i].fetched <=>
             (/\ trace[i].total_before < max_total
              /\ \/ SizeBefore(i) < cutoff_max_groups
                 \/ cutoff_strict)
       /\ (/\ ~cutoff_strict
           /\ SizeBefore(i) = cutoff_max_groups
           /\ trace[i].total_before < max_total)
          => trace[i].ret /\ ~trace[i].fetched

\* C14 witness: non-strict mode; a call that fetched while the table had
\* room, and a later call accepted with a full table without a fetch.
C14_Witness ==
    /\ ~cutoff_strict
    /\ \E i, j \in Calls :
          /\ i < j
          /\ trace[i].fetched
          /\ SizeBefore(j) = cutoff_max_groups
          /\ trace[j].ret
          /\ ~trace[j].fetched

\* The accounting of a filter run again from construction, with the overflow
\* policy given, over the documents of the first n calls of the history.
DocOfGroup(g) == CHOOSE d \in DocIds : Get(d) = g

RECURSIVE Replay(_, _)
Replay(strict, n) ==
    IF n = 0
    THEN [total_count |-> 0, seen |-> EmptyMap, max_total |-> max_total,
          max_per_group |-> max_per_group,
          cutoff_max_groups |-> cutoff_max_groups, cutoff_strict |-> strict]
    ELSE accepted(Replay(strict, n - 1), DocOfGroup(trace[n].group)).self

\* What call i returns on the replayed filter.
ReplayRet(strict, i) ==
    accepted(Replay(strict, i - 1), DocOfGroup(trace[i].group)).ret

\* C15 (strict and non-strict agree while the table has room): the filter
\* with the same caps and the opposite overflow policy, fed the same stream,
\* enters every call that this filter entered with room in the same
\* (total_count, seen) state, returns the same result and leaves it in the
\* same state.
C15_PoliciesAgreeWithRoom ==
    \A i \in Calls :
       SizeBefore(i) < cutoff_max_groups =>
          /\ Replay(~cutoff_strict, i - 1).total_count = trace[i].total_before
          /\ Replay(~cutoff_strict, i - 1).seen = trace[i].seen_before
          /\ ReplayRet(~cutoff_strict, i) = trace[i].ret
          /\ Replay(~cutoff_strict, i).total_count = TotalAfter(i)
          /\ Replay(~cutoff_strict, i).seen = SeenAfter(i)

\* C15 witness: the two policies agreed on a call refused for its group's cap
\* while the table had room and answered a later call, entered with a full
\* table, differently.
C15_Witness ==
    \E i, j \in Calls :
       /\ i < j
       /\ SizeBefore(i) < cutoff_max_groups
       /\ trace[i].total_before < max_total
       /\ ~trace[i].ret
       /\ SizeBefore(j) = cutoff_max_groups
       /\ ReplayRet(~cutoff_strict, j) # trace[j].ret

\* C16 (max_tracked_groups = 0): with cutoff_max_groups = 0, under either
\* policy and any max_per_group, seen stays empty, exactly the first
\* max_total calls return true, each through the uncapped branch, and every
\* later call returns false.
C16_NoTracking ==
    cutoff_max_groups = 0 =>
        /\ seen = EmptyMap
        /\ \A i \in Calls :
              /\ trace[i].seen_before = EmptyMap
              /\ trace[i].ret <=> i <= max_total
              /\ trace[i].ret => trace[i].uncapped

\* C16 witness: cutoff_max_groups = 0 and max_per_group = 0 in strict mode, a
\* positive max_total filled up and a further call refused.
C16_Witness ==
    /\ cutoff_max_groups = 0
    /\ max_per_group = 0
    /\ cutoff_strict
    /\ max_total >= 2
    /\ total_count = max_total
    /\ Len(trace) > max_total
    /\ ~trace[Len(trace)].ret

\* C17 as stated (max_per_group = 0, max_tracked_groups >= 1): every call
\* made while the table has room returns false and leaves the document's
\* group in seen with count 0; in strict mode every call for a tracked group
\* returns false; true is returned only with a full table, and in strict mode
\* only for an untracked group; fewer than cutoff_max_groups distinct groups
\* keep total_count at 0.
C17_OriginalZeroPerGroup ==
    (max_per_group = 0 /\ cutoff_max_groups >= 1) =>
        /\ \A i \in Calls :
              /\ SizeBefore(i) < cutoff_max_groups =>
                    /\ ~trace[i].ret
                    /\ trace[i].group \in DOMAIN SeenAfter(i)
                    /\ SeenAfter(i)[trace[i].group] = 0
              /\ (cutoff_strict /\ trace[i].group \in DOMAIN trace[i].seen_before)
                    => ~trace[i].ret
              /\ trace[i].ret =>
                    /\ SizeBefore(i) = cutoff_max_groups
                    /\ cutoff_strict =>
                          trace[i].group \notin DOMAIN trace[i].seen_before
        /\ Cardinality(Presented) < cutoff_max_groups => total_count = 0

\* C17 amended: as stated, except that a call made while the table has room
\* inserts its group (with count 0) only when max_total >= 1; with
\* max_total = 0 the call returns false at the global cap check and seen
\* stays empty.  With a full table and total_count < max_total, every call
\* returns true in non-strict mode and every call for an untracked group
\* returns true in strict mode.
C17_ZeroPerGroup ==
    (max_per_group = 0 /\ cutoff_max_groups >= 1) =>
        /\ \A i \in Calls :
              /\ SizeBefore(i) < cutoff_max_groups =>
                    /\ ~trace[i].ret
                    /\ max_total >= 1 =>
                          /\ trace[i].group \in DOMAIN SeenAfter(i)
                          /\ SeenAfter(i)[trace[i].group] = 0
                    /\ max_total = 0 => SeenAfter(i) = EmptyMap
              /\ (cutoff_strict /\ trace[i].group \in DOMAIN trace[i].seen_before)
                    => ~trace[i].ret
              /\ trace[i].ret =>
                    /\ SizeBefore(i) = cutoff_max_groups
                    /\ cutoff_strict =>
                          trace[i].group \notin DOMAIN trace[i].seen_before
              /\ (/\ SizeBefore(i) = cutoff_max_groups
                  /\ trace[i].total_before < max_total
                  /\ \/ ~cutoff_strict
                     \/ trace[i].group \notin DOMAIN trace[i].seen_before)
                 => trace[i].ret
        /\ Cardinality(Presented) < cutoff_max_groups => total_count = 0

\* C17 witness: max_per_group = 0 in strict mode; a rejecting call grew the
\* key set of seen, a document of a tracked group was refused with the table
\* full, and a document of an untracked group was accepted.
C17_Witness ==
    /\ max_per_group = 0
    /\ cutoff_max_groups >= 1
    /\ cutoff_strict
    /\ \E i, j, k \in Calls :
          /\ ~trace[i].ret
          /\ trace[i].group \notin DOMAIN trace[i].seen_before
          /\ trace[i].group \in DOMAIN SeenAfter(i)
          /\ SizeBefore(j) = cutoff_max_groups
          /\ trace[j].group \in DOMAIN trace[j].seen_before
          /\ trace[j].total_before < max_total
          /\ ~trace[j].ret
          /\ trace[k].ret
          /\ trace[k].group \notin DOMAIN seen

\* Sum of the tracked counts of a map.
RECURSIVE SumCounts(_)
SumCounts(m) ==
    IF DOMAIN m = {}
    THEN 0
    ELSE LET g == CHOOSE x \in DOMAIN m : TRUE
         IN  m[g] + SumCounts([x \in DOMAIN m \ {g} |-> m[x]])

\* C19 (accounting identity): total_count equals the number of calls that
\* returned true, and equals the sum of the tracked counts plus the number of
\* admissions through the uncapped branch; the sum of the tracked counts
\* equals total_count as long as no call was entered with a full table.
C19_Accounting ==
    /\ total_count = Cardinality({i \in Calls : trace[i].ret})
    /\ total_count =
          SumCounts(seen) + Cardinality({i \in Calls : trace[i].uncapped})
    /\ SumCounts(seen) <= total_count
    /\ (\A i \in Calls : SizeBefore(i) < cutoff_max_groups) =>
          SumCounts(seen) = total_count

\* C19 witness: two tracked groups with positive counts, an admission through
\* the uncapped branch and a refused call.
C19_Witness ==
    /\ \E g, h \in DOMAIN seen : g # h /\ seen[g] >= 1 /\ seen[h] >= 1
    /\ \E i \in Calls : trace[i].uncapped
    /\ \E i \in Calls : ~trace[i].ret
    /\ SumCounts(seen) < total_count

\* C11 (unsynchronized concurrent use is unsafe): when the callers serialize
\* their calls, total_count never exceeds max_total and no tracked count
\* exceeds max_per_group, although each call makes its comparisons and its
\* increments in separate steps.
C11_SerializedSafe ==
    serialized =>
        /\ total_count <= max_total
        /\ \A g \in DOMAIN seen : seen[g] <= max_per_group

\* C11 witness: two unserialized calls interleaved between comparison and
\* increment have pushed total_count above a positive max_total and a tracked
\* count above a positive max_per_group.
C11_Witness ==
    /\ ~serialized
    /\ max_total >= 1
    /\ max_per_group >= 1
    /\ total_count > max_total
    /\ \E g \in DOMAIN seen : seen[g] > max_per_group

\* A call whose document belongs to a group that is not tracked.
NewGroupCall ==
    \E docId \in DocIds : Get(docId) \notin DOMAIN seen /\ AcceptedLive(docId)

\* C18 (forward progress under high group cardinality): under either policy
\* and any caps, if calls for a group that is not in seen keep coming
\* (infinitely often), total_count eventually reaches max_total.
C18_ForwardProgress ==
    []<><<NewGroupCall>>_vars => <>(total_count = max_total)

\* C18 witness: strict mode with max_per_group = 0 and a full, non-empty
\* table; the latest call was for an untracked group, was accepted through
\* the overflow branch and brought total_count to a max_total of at least 2.
C18_Witness ==
    /\ cutoff_strict
    /\ max_per_group = 0
    /\ cutoff_max_groups >= 1
    /\ Cardinality(DOMAIN seen) = cutoff_max_groups
    /\ max_total >= 2
    /\ total_count = max_total
    /\ trace # <<>>
    /\ trace[Len(trace)].group \notin DOMAIN seen
    /\ trace[Len(trace)].uncapped
    /\ trace[Len(trace)].total_before = max_total - 1

====
